---- MODULE Spec2Model ----
(***************************************************************************)
(* The XCMP queue pallet (pallets/xcmp-queue/src/lib.rs) as a state        *)
(* machine: the five storage items, and one action per entry point         *)
(* (handle_xcmp_messages, on_idle, send_fragment, take_outbound_messages). *)
(*                                                                         *)
(* Conventions.  A byte string is a sequence of small integers.  The first *)
(* element of an aggregate is its XcmpMessageFormat tag.  In the body of   *)
(* an inbound data aggregate each element stands for one whole encoded     *)
(* fragment (Frag* below); in a signal aggregate each element is one       *)
(* encoded ChannelSignal.  Sequences are 1-based: a Rust index i is i + 1  *)
(* here, and the shuffle holds 1-based record indices.  The build is a     *)
(* release build: debug_assert! is compiled out.                           *)
(***************************************************************************)
EXTENDS Integers, Sequences, FiniteSets, TLC

VARIABLES
    InboundXcmpStatus,    \* Vec<(ParaId, InboundStatus, Vec<(RelayBlockNumber, XcmpMessageFormat)>)>
    InboundXcmpMessages,  \* (ParaId, RelayBlockNumber) -> Vec<u8>
    OutboundXcmpStatus,   \* Vec<(ParaId, OutboundStatus, bool, u16, u16)>
    OutboundXcmpMessages, \* (ParaId, u16) -> Vec<u8>
    SignalMessages,       \* ParaId -> Vec<u8>
    lastSentAt,           \* the relay block number of the last data aggregate delivered
    ncalls,               \* the number of calls made so far, where a run is cut short
    lastSignal,           \* history: per peer, the last signal send_signal enqueued
    streak,               \* history: per peer, batches accepted since its queue was
                          \*   empty, or -1 once a page of it was dispatched
    suspendedBy,          \* history: per peer, its last processed signal is Suspend
    op,                   \* history: the entry point that ran last
    svc,                  \* history: the service_xcmp_queue run of the last call
    take                  \* history: the last take_outbound_messages call

vars == <<InboundXcmpStatus, InboundXcmpMessages, OutboundXcmpStatus,
          OutboundXcmpMessages, SignalMessages, lastSentAt, ncalls, lastSignal,
          streak, suspendedBy, op, svc, take>>

storage == <<InboundXcmpStatus, InboundXcmpMessages, OutboundXcmpStatus,
             OutboundXcmpMessages, SignalMessages>>

(***************************************************************************)
(* Bounds of the model.                                                    *)
(***************************************************************************)
MaxCalls == 3         \* calls in a run under Spec
MaxSentAt == 2        \* relay block numbers handed out under Spec
MaxStream == 1        \* batches in one handle_xcmp_messages call under Spec
MaxCallsLong == 4     \* the same three under SpecLong
MaxSentAtLong == 3
MaxStreamLong == 2
MaxSentAtService == 2 \* the last two under SpecService
MaxStreamService == 1
MaxSentAtQueue == 4   \* the same two under SpecQueue
MaxStreamQueue == 2
MaxSentAtQueueLong == 7 \* the same two under SpecQueueLong
MaxStreamQueueLong == 2
MaxCallsSignal == 4   \* calls, relay blocks and batches under SpecSignal
MaxSentAtSignal == 3
MaxStreamSignal == 2
MaxCallsRotate == 6   \* calls in a run under SpecRotate
MaxCallsPoll == 3     \* send_fragment calls in a run under SpecPoll
MaxPages == 2         \* data pages queued per recipient by send_fragment
MaxRecords == 4       \* records of InboundXcmpStatus
MaxTurns == 16        \* turns of the service loop followed before it is cut off

Peers == {1, 2}
PeersRotate == {1, 2, 3}  \* the recipients of SpecRotate

(***************************************************************************)
(* Program constants.                                                      *)
(***************************************************************************)
ConcatenatedVersionedXcm == 0
ConcatenatedEncodedBlob == 1
Signals == 2
Suspend == 0
Resume == 1
resume_threshold == 1
threshold_weight == 100000
weight_restrict_decay == 2
suspend_threshold == 2
hard_limit == 5

(***************************************************************************)
(* Encoded fragments of an inbound data aggregate, and what the executor   *)
(* makes of them.                                                          *)
(***************************************************************************)
FragGarbage == 0      \* bytes that do not decode as a fragment
FragLight == 1        \* a VersionedXcm the executor weighs at 1000
FragHeavy == 2        \* a VersionedXcm the executor weighs at 60000
FragBadVersion == 3   \* a VersionedXcm of a version Xcm::try_from rejects

Weigh(xcm) == IF xcm = FragLight THEN 1000 ELSE 60000

\* T::XcmExecutor::execute_xcm: refuses a message heavier than the limit,
\* otherwise completes it at its weight.
execute_xcm(xcm, max_weight) ==
    IF Weigh(xcm) > max_weight
    THEN [outcome |-> "Error", error |-> "TooMuchWeightRequired", weight |-> 0]
    ELSE [outcome |-> "Complete", error |-> "", weight |-> Weigh(xcm)]

(***************************************************************************)
(* Storage maps: a missing key reads as the empty Vec.                     *)
(***************************************************************************)
Get(map, k) == IF k \in DOMAIN map THEN map[k] ELSE <<>>
Insert(map, k, v) == [x \in (DOMAIN map) \cup {k} |-> IF x = k THEN v ELSE map[x]]
Remove(map, k) == [x \in (DOMAIN map) \ {k} |-> map[x]]

Min(a, b) == IF a < b THEN a ELSE b
saturating_sub(a, b) == IF a > b THEN a - b ELSE 0

\* iter().position(|item| item.0 == id), 1-based; 0 for None
RECURSIVE PositionFrom(_, _, _)
PositionFrom(s, id, i) ==
    IF i > Len(s) THEN 0
    ELSE IF s[i].para_id = id THEN i
    ELSE PositionFrom(s, id, i + 1)

Position(s, id) == PositionFrom(s, id, 1)

RemoveAt(s, i) == SubSeq(s, 1, i - 1) \o SubSeq(s, i + 1, Len(s))

(***************************************************************************)
(* send_signal                                                             *)
(***************************************************************************)
\* o = [status |-> OutboundXcmpStatus, signals |-> SignalMessages]
send_signal(o, dest, signal) ==
    LET s == o.status
        index == Position(s, dest)
        s2 == IF index > 0
              THEN [s EXCEPT ![index].signalling = TRUE]
              ELSE Append(s, [para_id |-> dest, outbound_status |-> "Ok",
                              signalling |-> TRUE, begin |-> 0, end |-> 0])
        page == Get(o.signals, dest)
        page2 == IF page = <<>> THEN <<Signals, signal>> ELSE Append(page, signal)
    IN [status |-> s2, signals |-> Insert(o.signals, dest, page2)]

(***************************************************************************)
(* suspend_channel, resume_channel                                         *)
(***************************************************************************)
suspend_channel(s, target) ==
    LET index == Position(s, target)
    IN IF index > 0
       THEN [s EXCEPT ![index].outbound_status = "Suspended"]
       ELSE Append(s, [para_id |-> target, outbound_status |-> "Suspended",
                       signalling |-> FALSE, begin |-> 0, end |-> 0])

resume_channel(s, target) ==
    LET index == Position(s, target)
    IN IF index > 0
       THEN IF s[index].begin = s[index].end
            THEN RemoveAt(s, index)
            ELSE [s EXCEPT ![index].outbound_status = "Ok"]
       ELSE s

(***************************************************************************)
(* handle_xcm_message, handle_blob_message                                 *)
(***************************************************************************)
\* Xcm::try_from fails for an unsupported version; the executor is then not
\* called.  Complete and Incomplete both report Ok(weight).
handle_xcm_message(xcm, max_weight) ==
    IF xcm = FragBadVersion
    THEN [ok |-> FALSE, error |-> "UnhandledXcmVersion", used |-> 0, executed |-> FALSE]
    ELSE LET r == execute_xcm(xcm, max_weight)
         IN IF r.outcome = "Error"
            THEN [ok |-> FALSE, error |-> r.error, used |-> 0, executed |-> TRUE]
            ELSE [ok |-> TRUE, error |-> "", used |-> r.weight, executed |-> TRUE]

\* Err(false): not handled, not to be retried
handle_blob_message(blob, weight_limit) == [ok |-> FALSE, retry |-> FALSE]

(***************************************************************************)
(* process_xcmp_message                                                    *)
(***************************************************************************)
\* a variant that offers every fragment the whole of max_weight
FragmentWeightNoSub(max_weight, weight_used) == max_weight

\* the weight offered to the next fragment of a page
FragmentWeight(max_weight, weight_used) == max_weight - weight_used

\* a variant that leaves the cursor behind the fragment that was refused
NoRewind(last_remaining_fragments, remaining_fragments) == remaining_fragments

\* remaining_fragments = last_remaining_fragments: back to the start of the
\* fragment that was refused
Rewind(last_remaining_fragments, remaining_fragments) == last_remaining_fragments

\* r = [remaining_fragments, weight_used, offers]; offers lists the fragments
\* handed to the executor with the weight limit given to each, and whether
\* the executor took the fragment on (ok) or refused it.
RECURSIVE XcmFragments(_, _)
XcmFragments(r, max_weight) ==
    IF r.remaining_fragments = <<>> THEN r
    ELSE LET xcm == Head(r.remaining_fragments)
         IN IF xcm = FragGarbage
            THEN [r EXCEPT !.remaining_fragments = <<>>]
            ELSE LET weight == FragmentWeight(max_weight, r.weight_used)
                     h == handle_xcm_message(xcm, weight)
                     offers == IF h.executed
                               THEN Append(r.offers, [fragment |-> xcm, weight |-> weight,
                                                      ok |-> h.ok])
                               ELSE r.offers
                 IN IF h.ok
                    THEN XcmFragments([remaining_fragments |-> Tail(r.remaining_fragments),
                                       weight_used |-> r.weight_used + h.used,
                                       offers |-> offers], max_weight)
                    ELSE IF h.error = "TooMuchWeightRequired"
                    THEN [r EXCEPT !.offers = offers,
                                   !.remaining_fragments =
                                       Rewind(@, Tail(r.remaining_fragments))]
                    ELSE XcmFragments([r EXCEPT !.remaining_fragments = Tail(@),
                                                !.offers = offers], max_weight)

RECURSIVE BlobFragments(_, _)
BlobFragments(r, max_weight) ==
    IF r.remaining_fragments = <<>> THEN r
    ELSE LET blob == Head(r.remaining_fragments)
         IN IF blob = FragGarbage
            THEN [r EXCEPT !.remaining_fragments = <<>>]
            ELSE LET h == handle_blob_message(blob, max_weight - r.weight_used)
                 IN IF h.ok \/ ~h.retry
                    THEN BlobFragments([r EXCEPT !.remaining_fragments = Tail(@)], max_weight)
                    ELSE r

\* returns [messages, weight_used, is_empty, offers]
process_xcmp_message(messages, sender, page, max_weight) ==
    LET sent_at == page[1]
        format == page[2]
        data == Get(messages, <<sender, sent_at>>)
        start == [remaining_fragments |-> data, weight_used |-> 0, offers |-> <<>>]
        \* after the loop over the fragments left the locals as r
        Stored(r) ==
            [messages |-> IF r.remaining_fragments = <<>>
                          THEN Remove(messages, <<sender, sent_at>>)
                          ELSE Insert(messages, <<sender, sent_at>>, r.remaining_fragments),
             weight_used |-> r.weight_used,
             is_empty |-> r.remaining_fragments = <<>>,
             offers |-> r.offers]
    IN Stored(IF format = ConcatenatedVersionedXcm THEN XcmFragments(start, max_weight)
              ELSE IF format = ConcatenatedEncodedBlob THEN BlobFragments(start, max_weight)
              ELSE [start EXCEPT !.remaining_fragments = <<>>])

(***************************************************************************)
(* create_shuffle                                                          *)
(***************************************************************************)
\* rng[i + 1] is the value of rng.next_u32() % len drawn in round i.
RECURSIVE ShuffleFrom(_, _, _)
ShuffleFrom(shuffled, rng, i) ==
    IF i >= Len(shuffled) THEN shuffled
    ELSE LET j == rng[i + 1]
             a == shuffled[i + 1]
             s1 == [shuffled EXCEPT ![i + 1] = shuffled[j + 1]]
             s2 == [s1 EXCEPT ![j + 1] = a]
         IN ShuffleFrom(s2, rng, i + 1)

create_shuffle(len, rng) == ShuffleFrom([k \in 1..len |-> k], rng, 0)

\* the orders create_shuffle can return for some parent hash, for each length
\* of InboundXcmpStatus up to MaxRecords
ShuffleTable ==
    UNION {{<<len, create_shuffle(len, rng)>> : rng \in [1..len -> 0..(len - 1)]}
           : len \in 0..MaxRecords}

Shuffles(len) == {e[2] : e \in {x \in ShuffleTable : x[1] = len}}

(***************************************************************************)
(* service_xcmp_queue                                                      *)
(***************************************************************************)
\* the loop condition on the weight left
CanContinue(max_weight, weight_used) ==
    saturating_sub(max_weight, weight_used) < threshold_weight

\* the weight unlocked for this turn of the loop
Unlock(weight_available, max_weight, shuffle_index, status_len) ==
    IF weight_available /= max_weight
    THEN IF shuffle_index < status_len
         THEN LET w == weight_available
                       + (max_weight - weight_available) \div weight_restrict_decay
              IN IF w + threshold_weight > max_weight THEN max_weight ELSE w
         ELSE max_weight
    ELSE weight_available

\* a variant that forgets the weight already used
WeightRemainingNoSub(weight_available, weight_used) == weight_available

\* the weight cap process_xcmp_message is given
WeightRemaining(weight_available, weight_used) ==
    saturating_sub(weight_available, weight_used)

\* The shuffle is read only inside the loop: when the loop cannot start, one
\* order stands for all.
ShufflesRead(len, max_weight) ==
    IF CanContinue(max_weight, 0) THEN Shuffles(len) ELSE {create_shuffle(len, [k \in 1..len |-> 0])}

\* The condition of the re-run: the turn left pages behind and consumed weight,
\* or the weight is not all unlocked yet.
AgainWhilePages(more, weight_processed, weight_available, max_weight) ==
    more \/ weight_available /= max_weight

Again(more, weight_processed, weight_available, max_weight) ==
    (more /\ weight_processed > 0) \/ weight_available /= max_weight

\* s = [status, messages, out, shuffled, shuffle_index, weight_used,
\*      weight_available, calls, sent, lastSignal, streak, turns, cut]: the locals
\* of the function, the storage it writes while running, and the history it
\* leaves.  turns lists every turn of the loop; a loop still running after
\* MaxTurns turns is left with cut set.
RECURSIVE ServiceLoop(_, _)
ServiceLoop(s, max_weight) ==
    IF ~(s.shuffle_index < Len(s.shuffled) /\ CanContinue(max_weight, s.weight_used))
    THEN s
    ELSE IF Len(s.turns) >= MaxTurns THEN [s EXCEPT !.cut = TRUE]
    ELSE
    LET index == s.shuffled[s.shuffle_index + 1]
        sender == s.status[index].sender
        weight_available ==
            Unlock(s.weight_available, max_weight, s.shuffle_index, Len(s.status))
        has_page == s.status[index].pages /= <<>>
        weight_remaining == WeightRemaining(weight_available, s.weight_used)
        last == s.shuffle_index + 1 = Len(s.shuffled)
        \* the turn from the status update on: status1 is the status after the
        \* page was processed, weight_processed what that consumed
        Resumed(status1, weight_processed, resume) ==
            LET pages == status1[index].pages
                again == Again(pages /= <<>>, weight_processed, weight_available,
                               max_weight)
            IN [s EXCEPT
                !.status = IF resume THEN [status1 EXCEPT ![index].status = "Ok"]
                           ELSE status1,
                !.out = IF resume THEN send_signal(@, sender, Resume) ELSE @,
                !.weight_used = @ + weight_processed,
                !.weight_available = weight_available,
                !.sent = IF resume THEN Append(@, <<sender, Resume>>) ELSE @,
                !.lastSignal = IF resume THEN [@ EXCEPT ![sender] = Resume] ELSE @,
                !.streak = IF has_page THEN [@ EXCEPT ![sender] = -1] ELSE @,
                !.turns = Append(@, [index |-> index, last |-> last, again |-> again,
                                     weight_processed |-> weight_processed,
                                     weight_available |-> weight_available]),
                !.shuffled = IF again /\ ~last THEN Append(@, index) ELSE @,
                !.shuffle_index = IF again /\ last THEN @ ELSE @ + 1]
        Updated(status1, weight_processed) ==
            Resumed(status1, weight_processed,
                    Len(status1[index].pages) <= resume_threshold
                    /\ status1[index].status = "Suspended")
        \* the turn after process_xcmp_message returned p
        Processed(p) ==
            [Updated(IF p.is_empty THEN [s.status EXCEPT ![index].pages = Tail(@)]
                     ELSE s.status,
                     p.weight_used)
             EXCEPT !.messages = p.messages,
                    !.calls = Append(@, [sender |-> sender,
                                         sent_at |-> s.status[index].pages[1][1],
                                         format |-> s.status[index].pages[1][2],
                                         data |-> Get(s.messages,
                                                      <<sender, s.status[index].pages[1][1]>>),
                                         remaining |-> Get(p.messages,
                                                      <<sender, s.status[index].pages[1][1]>>),
                                         weight_remaining |-> weight_remaining,
                                         weight_used_before |-> s.weight_used,
                                         offers |-> p.offers,
                                         weight_processed |-> p.weight_used,
                                         is_empty |-> p.is_empty])]
    IN ServiceLoop(IF has_page
                   THEN Processed(process_xcmp_message(s.messages, sender,
                                                       s.status[index].pages[1],
                                                       weight_remaining))
                   ELSE Updated(s.status, 0),
                   max_weight)

RECURSIVE Retain(_)
Retain(status) ==
    IF status = <<>> THEN <<>>
    ELSE IF Head(status).pages /= <<>>
    THEN <<Head(status)>> \o Retain(Tail(status))
    ELSE Retain(Tail(status))

\* the senders InboundXcmpStatus lists, and the fragments of the pages stored
\* under the keys ks of InboundXcmpMessages
QueuedPeers(status) == Cardinality({status[i].sender : i \in 1..Len(status)})

RECURSIVE QueuedFragments(_, _)
QueuedFragments(messages, ks) ==
    IF ks = {} THEN 0
    ELSE LET k == CHOOSE x \in ks : TRUE
         IN Len(messages[k]) + QueuedFragments(messages, ks \ {k})

HasRecord(status, peer) == \E i \in 1..Len(status) : status[i].sender = peer

\* s = [status, messages, out, lastSignal, streak, signalled]: InboundXcmpStatus
\* as read, the storage and the history on entry.  Returns the same with status as
\* put, and the weight returned and the history of the run in svc.
service_xcmp_queue(s, max_weight, shuffled) ==
    LET queued == \E i \in 1..Len(s.status) : s.status[i].pages /= <<>>
        \* after the loop left the locals as r, status being what is put
        Put(r, status) ==
            [status |-> status, messages |-> r.messages, out |-> r.out,
             lastSignal |-> r.lastSignal,
             streak |-> [q \in Peers |-> IF HasRecord(status, q) THEN r.streak[q] ELSE 0],
             svc |-> [max_weight |-> max_weight, queued |-> queued, calls |-> r.calls,
                      sent |-> r.sent, enqueued |-> s.signalled \o r.sent,
                      weight_used |-> r.weight_used,
                      peers |-> QueuedPeers(s.status),
                      fragments |-> QueuedFragments(s.messages, DOMAIN s.messages),
                      turns |-> r.turns, cut |-> r.cut]]
        Looped(r) == Put(r, Retain(r.status))
    IN
    IF Len(s.status) = 0
    THEN [status |-> s.status, messages |-> s.messages, out |-> s.out,
          lastSignal |-> s.lastSignal, streak |-> s.streak,
          svc |-> [max_weight |-> max_weight, queued |-> queued, calls |-> <<>>,
                   sent |-> <<>>, enqueued |-> s.signalled, weight_used |-> 0,
                   peers |-> QueuedPeers(s.status),
                   fragments |-> QueuedFragments(s.messages, DOMAIN s.messages),
                   turns |-> <<>>, cut |-> FALSE]]
    ELSE Looped(ServiceLoop([status |-> s.status, messages |-> s.messages, out |-> s.out,
                             shuffled |-> shuffled, shuffle_index |-> 0,
                             weight_used |-> 0, weight_available |-> 0,
                             calls |-> <<>>, sent |-> <<>>,
                             lastSignal |-> s.lastSignal, streak |-> s.streak,
                             turns |-> <<>>, cut |-> FALSE],
                            max_weight))

(***************************************************************************)
(* handle_xcmp_messages                                                    *)
(***************************************************************************)
\* status.binary_search_by_key(&sender, |item| item.0), as core::slice has it
\* from Rust 1.52 on.  [found, index]; index is 1-based when found.
RECURSIVE BinarySearchNew(_, _, _, _)
BinarySearchNew(status, sender, left, right) ==
    IF left >= right THEN [found |-> FALSE, index |-> 0]
    ELSE LET mid == left + (right - left) \div 2
             key == status[mid + 1].sender
         IN IF key < sender THEN BinarySearchNew(status, sender, mid + 1, right)
            ELSE IF key > sender THEN BinarySearchNew(status, sender, left, mid)
            ELSE [found |-> TRUE, index |-> mid + 1]

\* the same, as core::slice has it up to Rust 1.51
RECURSIVE BinarySearchOldBase(_, _, _, _)
BinarySearchOldBase(status, sender, base, size) ==
    IF size <= 1 THEN base
    ELSE LET half == size \div 2
             mid == base + half
         IN BinarySearchOldBase(status, sender,
                                IF status[mid + 1].sender > sender THEN base ELSE mid,
                                size - half)

BinarySearchOld(status, sender) ==
    IF Len(status) = 0 THEN [found |-> FALSE, index |-> 0]
    ELSE LET base == BinarySearchOldBase(status, sender, 0, Len(status))
         IN IF status[base + 1].sender = sender
            THEN [found |-> TRUE, index |-> base + 1]
            ELSE [found |-> FALSE, index |-> 0]

binary_search_by_key(status, sender, impl) ==
    IF impl = "new" THEN BinarySearchNew(status, sender, 0, Len(status))
    ELSE BinarySearchOld(status, sender)

\* derive(Ord) on the pages, on InboundStatus and on the status tuple
RECURSIVE PagesLess(_, _)
PagesLess(p, q) ==
    IF p = <<>> THEN q /= <<>>
    ELSE IF q = <<>> THEN FALSE
    ELSE IF Head(p) = Head(q) THEN PagesLess(Tail(p), Tail(q))
    ELSE Head(p)[1] < Head(q)[1] \/ (Head(p)[1] = Head(q)[1] /\ Head(p)[2] < Head(q)[2])

ItemLess(a, b) ==
    \/ a.sender < b.sender
    \/ a.sender = b.sender /\ a.status = "Ok" /\ b.status = "Suspended"
    \/ a.sender = b.sender /\ a.status = b.status /\ PagesLess(a.pages, b.pages)

\* status.sort(): a stable sort
RECURSIVE InsertSorted(_, _)
InsertSorted(sorted, item) ==
    IF sorted = <<>> THEN <<item>>
    ELSE IF ItemLess(item, Head(sorted)) THEN <<item>> \o sorted
    ELSE <<Head(sorted)>> \o InsertSorted(Tail(sorted), item)

RECURSIVE SortFrom(_, _)
SortFrom(sorted, rest) ==
    IF rest = <<>> THEN sorted
    ELSE SortFrom(InsertSorted(sorted, Head(rest)), Tail(rest))

Sort(status) == SortFrom(<<>>, status)

\* a variant that counts the arriving batch with the queued ones
ShouldSuspendCountingArrival(count, status) ==
    count + 1 >= suspend_threshold /\ status = "Ok"

\* the test that suspends the sender of a batch whose record holds count pages
ShouldSuspend(count, status) ==
    count >= suspend_threshold /\ status = "Ok"

\* the loop over the signals of a Signals aggregate; r = [status, suspendedBy]
RECURSIVE SignalsLoop(_, _, _)
SignalsLoop(r, sender, data_ref) ==
    IF data_ref = <<>> THEN r
    ELSE IF Head(data_ref) = Suspend
    THEN SignalsLoop([status |-> suspend_channel(r.status, sender),
                      suspendedBy |-> [r.suspendedBy EXCEPT ![sender] = TRUE]],
                     sender, Tail(data_ref))
    ELSE IF Head(data_ref) = Resume
    THEN SignalsLoop([status |-> resume_channel(r.status, sender),
                      suspendedBy |-> [r.suspendedBy EXCEPT ![sender] = FALSE]],
                     sender, Tail(data_ref))
    ELSE r

IsData(data) ==
    data /= <<>> /\ Head(data) \in {ConcatenatedVersionedXcm, ConcatenatedEncodedBlob}

\* one turn of the loop over the iterator, for (sender, sent_at, data);
\* s = [status, messages, out, lastSignal, streak, suspendedBy, lastSentAt,
\* signalled]; signalled lists the signals enqueued so far in this call.
\* A data aggregate is sent at the relay block after the last one; the
\* sent_at of any other aggregate is never read.
HandleOne(s, sender, data, impl) ==
    IF data = <<>> \/ Head(data) \notin {ConcatenatedVersionedXcm, ConcatenatedEncodedBlob, Signals}
    THEN s
    ELSE
    LET format == Head(data)
        data_ref == Tail(data)
        sent_at == s.lastSentAt + 1
    IN
    IF format = Signals
    THEN LET Signalled(r) ==
                 [s EXCEPT !.out.status = r.status, !.suspendedBy = r.suspendedBy]
         IN Signalled(SignalsLoop([status |-> s.out.status, suspendedBy |-> s.suspendedBy],
                                  sender, data_ref))
    ELSE
    LET \* the batch once the search returned: found at i (1-based), the record
        \* holding count pages, or not found
        Queued(found, i, count, suspend) ==
            [s EXCEPT
             !.status =
                 IF ~found
                 THEN Append(@, [sender |-> sender, status |-> "Ok",
                                 pages |-> <<<<sent_at, format>>>>])
                 ELSE IF count < hard_limit
                 THEN [@ EXCEPT ![i].status = IF suspend THEN "Suspended" ELSE @,
                                ![i].pages = Append(@, <<sent_at, format>>)]
                 ELSE [@ EXCEPT ![i].status = IF suspend THEN "Suspended" ELSE @],
             !.out = IF suspend THEN send_signal(@, sender, Suspend) ELSE @,
             !.lastSignal = IF suspend THEN [@ EXCEPT ![sender] = Suspend] ELSE @,
             !.signalled = IF suspend THEN Append(@, <<sender, Suspend>>) ELSE @,
             !.streak = IF (~found \/ count < hard_limit) /\ @[sender] >= 0
                        THEN [@ EXCEPT ![sender] = @ + 1] ELSE @,
             !.messages = Insert(@, <<sender, sent_at>>, data_ref),
             !.lastSentAt = sent_at]
        Counted(found, i, count) ==
            Queued(found, i, count, found /\ ShouldSuspend(count, s.status[i].status))
        Searched(b) ==
            Counted(b.found, b.index, IF b.found THEN Len(s.status[b.index].pages) ELSE 0)
    IN Searched(binary_search_by_key(s.status, sender, impl))

\* stream[k] = [sender, data]
RECURSIVE HandleFrom(_, _, _, _)
HandleFrom(s, stream, k, impl) ==
    IF k > Len(stream) THEN s
    ELSE HandleFrom(HandleOne(s, stream[k].sender, stream[k].data, impl),
                    stream, k + 1, impl)

\* the function up to InboundXcmpStatus::put(status); what follows is
\* service_xcmp_queue(max_weight)
HandleBatches(s, stream, impl) ==
    [HandleFrom(s, stream, 1, impl) EXCEPT !.status = Sort(@)]

(***************************************************************************)
(* send_fragment                                                           *)
(***************************************************************************)
\* o = [status |-> OutboundXcmpStatus, messages |-> OutboundXcmpMessages];
\* channel_max is get_channel_max(recipient), 0 for None.
\* Returns the same, with result "NoChannel", "TooBig" or "Ok".
send_fragment(o, recipient, format, data, channel_max) ==
    IF channel_max = 0 THEN [o EXCEPT !.result = "NoChannel"]
    ELSE IF Len(data) > channel_max THEN [o EXCEPT !.result = "TooBig"]
    ELSE
    LET found == Position(o.status, recipient)
        s == IF found > 0 THEN o.status
             ELSE Append(o.status, [para_id |-> recipient, outbound_status |-> "Ok",
                                    signalling |-> FALSE, begin |-> 0, end |-> 0])
        index == IF found > 0 THEN found ELSE Len(s)
        have_active == s[index].end > s[index].begin
        page == Get(o.messages, <<recipient, s[index].end - 1>>)
        appended == /\ have_active
                    /\ page /= <<>> /\ Head(page) = format
                    /\ ~(Len(page) + Len(data) > channel_max)
    IN IF appended
       THEN [status |-> o.status,
             messages |-> Insert(o.messages, <<recipient, s[index].end - 1>>, page \o data),
             result |-> "Ok"]
       ELSE [status |-> [s EXCEPT ![index].end = @ + 1],
             messages |-> Insert(o.messages, <<recipient, s[index].end>>, <<format>> \o data),
             result |-> "Ok"]

(***************************************************************************)
(* take_outbound_messages                                                  *)
(***************************************************************************)
RECURSIVE RemovePages(_, _, _, _)
RemovePages(messages, para_id, i, end) ==
    IF i >= end THEN messages
    ELSE RemovePages(Remove(messages, <<para_id, i>>), para_id, i + 1, end)

\* a variant that passes over no channel
SkipNone(outbound_status) == FALSE

\* a suspended channel is passed over
SkipSuspended(outbound_status) == outbound_status = "Suspended"

\* a variant that lets a data page go while a signal is pending
DataTurnAlways(signalling) == TRUE

\* a data page is looked at only when no signal is pending
DataTurn(signalling) == ~signalling

\* the loop over statuses, from the k-th; t = [statuses, messages, signals, result];
\* channel[p] is get_channel_status(p): [status, now, ever]
RECURSIVE TakeFrom(_, _, _, _)
TakeFrom(t, k, max_message_count, channel) ==
    IF k > Len(t.statuses) \/ Len(t.result) = max_message_count THEN t
    ELSE
    LET status == t.statuses[k]
        para_id == status.para_id
        c == channel[para_id]
        next(u) == TakeFrom(u, k + 1, max_message_count, channel)
    IN
    IF SkipSuspended(status.outbound_status) THEN next(t)
    ELSE IF c.status = "Closed"
    THEN next([t EXCEPT
               !.messages = RemovePages(@, para_id, status.begin, status.end),
               !.signals = IF status.signalling THEN Remove(@, para_id) ELSE @,
               !.statuses[k] = [para_id |-> para_id, outbound_status |-> "Ok",
                                signalling |-> FALSE, begin |-> 0, end |-> 0]])
    ELSE IF c.status = "Full" THEN next(t)
    ELSE
    LET signal_page == Get(t.signals, para_id)
        data_page == Get(t.messages, <<para_id, status.begin>>)
        take_signal == status.signalling /\ Len(signal_page) < c.now
        take_data == DataTurn(status.signalling) /\ status.end > status.begin
                     /\ Len(data_page) < c.now
    IN
    IF ~take_signal /\ ~take_data THEN next(t)
    ELSE
    LET page == IF take_signal THEN signal_page ELSE data_page
        signalling == IF take_signal THEN FALSE ELSE status.signalling
        begin1 == IF take_data THEN status.begin + 1 ELSE status.begin
        begin == IF begin1 = status.end THEN 0 ELSE begin1
        end == IF begin1 = status.end THEN 0 ELSE status.end
    IN next([t EXCEPT
             !.signals = IF take_signal THEN Remove(@, para_id) ELSE @,
             !.messages = IF take_data THEN Remove(@, <<para_id, status.begin>>) ELSE @,
             !.result = IF Len(page) > c.ever THEN @ ELSE Append(@, <<para_id, page>>),
             !.statuses[k] = [para_id |-> para_id,
                              outbound_status |-> status.outbound_status,
                              signalling |-> signalling, begin |-> begin, end |-> end]])

\* result.sort_by_key(|m| m.0)
RECURSIVE InsertByKey(_, _)
InsertByKey(sorted, m) ==
    IF sorted = <<>> THEN <<m>>
    ELSE IF m[1] < Head(sorted)[1] THEN <<m>> \o sorted
    ELSE <<Head(sorted)>> \o InsertByKey(Tail(sorted), m)

RECURSIVE SortByKeyFrom(_, _)
SortByKeyFrom(sorted, rest) ==
    IF rest = <<>> THEN sorted
    ELSE SortByKeyFrom(InsertByKey(sorted, Head(rest)), Tail(rest))

\* statuses.retain(|x| x.1 == Suspended || x.2 || x.3 < x.4)
RECURSIVE RetainOutbound(_)
RetainOutbound(statuses) ==
    IF statuses = <<>> THEN <<>>
    ELSE LET x == Head(statuses)
         IN IF x.outbound_status = "Suspended" \/ x.signalling \/ x.begin < x.end
            THEN <<x>> \o RetainOutbound(Tail(statuses))
            ELSE RetainOutbound(Tail(statuses))

rotate_left(s, mid) == SubSeq(s, mid + 1, Len(s)) \o SubSeq(s, 1, mid)

\* o = [statuses, messages, signals].  Returns [statuses, messages, signals,
\* result, panicked]; a panic (result.len() - pruned underflows, or
\* rotate_left is asked for more than the length) leaves the storage as it was.
take_outbound_messages(o, maximum_channels, channel) ==
    LET old_statuses_len == Len(o.statuses)
        max_message_count == Min(old_statuses_len, maximum_channels)
        \* after the loop left t, with result sorted and statuses retained
        Rotated(t, result, statuses, pruned) ==
            IF Len(result) < pruned \/ Len(result) - pruned > Len(statuses)
            THEN [statuses |-> o.statuses, messages |-> o.messages,
                  signals |-> o.signals, result |-> <<>>, panicked |-> TRUE]
            ELSE [statuses |-> rotate_left(statuses, Len(result) - pruned),
                  messages |-> t.messages, signals |-> t.signals,
                  result |-> result, panicked |-> FALSE]
        Retained(t, statuses) ==
            Rotated(t, SortByKeyFrom(<<>>, t.result), statuses,
                    old_statuses_len - Len(statuses))
        Taken(t) == Retained(t, RetainOutbound(t.statuses))
    IN Taken(TakeFrom([statuses |-> o.statuses, messages |-> o.messages,
                       signals |-> o.signals, result |-> <<>>],
                      1, max_message_count, channel))

(***************************************************************************)
(* The environment: what the callers pass in.                              *)
(***************************************************************************)
\* The search of an unsorted list is unspecified; it does what the linked
\* core::slice does.
Builds == {"old", "new"}

\* aggregates delivered by the relay chain
XcmLight == <<ConcatenatedVersionedXcm, FragLight>>
SignalSuspend == <<Signals, Suspend>>
SignalResume == <<Signals, Resume>>

Data == {XcmLight, SignalSuspend, SignalResume}
DataQueue == {XcmLight}
DataService == {XcmLight,
                <<ConcatenatedVersionedXcm, FragLight, FragLight>>,
                <<ConcatenatedVersionedXcm, FragBadVersion, FragHeavy>>,
                <<ConcatenatedEncodedBlob, FragLight>>,
                <<ConcatenatedVersionedXcm, FragLight, FragGarbage>>}

Budgets == {1500, threshold_weight}
BudgetsService == {1500, 2500, 70000, threshold_weight}

Streams(data, maxStream) ==
    UNION {[1..n -> [sender : Peers, data : data]] : n \in 1..maxStream}

\* encoded fragments handed to send_fragment, and the page sizes ChannelInfo reports
Fragments == {<<FragLight>>, <<FragLight, FragLight, FragLight>>}
Formats == {ConcatenatedVersionedXcm}
ChannelMaxes == {0, 3}
ChannelStatuses ==
    {[status |-> "Closed", now |-> 0, ever |-> 0],
     [status |-> "Full", now |-> 0, ever |-> 0],
     [status |-> "Ready", now |-> 3, ever |-> 3],
     [status |-> "Ready", now |-> 5, ever |-> 2]}
MaximumChannels == {1, 2}

NoSvc == [max_weight |-> 0, queued |-> FALSE, calls |-> <<>>, sent |-> <<>>,
          enqueued |-> <<>>, weight_used |-> 0, peers |-> 0, fragments |-> 0,
          turns |-> <<>>, cut |-> FALSE]
NoTake == [maximum_channels |-> 0, channel |-> <<>>, open |-> {}, result |-> <<>>,
           panicked |-> FALSE]

(***************************************************************************)
(* The state machine.                                                      *)
(***************************************************************************)
Init ==
    /\ InboundXcmpStatus = <<>>
    /\ InboundXcmpMessages = <<>>
    /\ OutboundXcmpStatus = <<>>
    /\ OutboundXcmpMessages = <<>>
    /\ SignalMessages = <<>>
    /\ lastSentAt = 0
    /\ ncalls = 0
    /\ lastSignal = [p \in Peers |-> -1]
    /\ streak = [p \in Peers |-> 0]
    /\ suspendedBy = [p \in Peers |-> FALSE]
    /\ op = "init"
    /\ svc = NoSvc
    /\ take = NoTake

\* a run of at most maxCalls calls; 0 for any number
Call(maxCalls) ==
    IF maxCalls = 0 THEN ncalls' = ncalls ELSE ncalls < maxCalls /\ ncalls' = ncalls + 1

Entry == [status |-> InboundXcmpStatus, messages |-> InboundXcmpMessages,
          out |-> [status |-> OutboundXcmpStatus, signals |-> SignalMessages],
          lastSignal |-> lastSignal, streak |-> streak, suspendedBy |-> suspendedBy,
          lastSentAt |-> lastSentAt, signalled |-> <<>>]

\* the primed state after service_xcmp_queue returned v
Serviced(v) ==
    /\ InboundXcmpStatus' = v.status
    /\ InboundXcmpMessages' = v.messages
    /\ OutboundXcmpStatus' = v.out.status
    /\ SignalMessages' = v.out.signals
    /\ lastSignal' = v.lastSignal
    /\ streak' = v.streak
    /\ svc' = v.svc
    /\ take' = NoTake
    /\ UNCHANGED OutboundXcmpMessages

\* the data aggregates of a stream: each takes the next relay block number
Sent(stream) == Cardinality({k \in 1..Len(stream) : IsData(stream[k].data)})

\* XcmpMessageHandler::handle_xcmp_messages(iter, max_weight)
Ingest(data, budgets, maxSentAt, maxStream, maxCalls) ==
    /\ Call(maxCalls)
    /\ op' = "handle_xcmp_messages"
    /\ \E stream \in Streams(data, maxStream) :
        /\ lastSentAt + Sent(stream) <= maxSentAt
        /\ \E r \in {HandleBatches(Entry, stream, impl) : impl \in Builds} :
            /\ Len(r.status) <= MaxRecords
            /\ suspendedBy' = r.suspendedBy
            /\ lastSentAt' = r.lastSentAt
            /\ \E max_weight \in budgets :
                   \E shuffled \in ShufflesRead(Len(r.status), max_weight) :
                       Serviced(service_xcmp_queue(r, max_weight, shuffled))

\* on_idle(_now, max_weight)
Idle(budgets, maxCalls) ==
    /\ Call(maxCalls)
    /\ \E max_weight \in budgets :
        /\ \E shuffled \in ShufflesRead(Len(InboundXcmpStatus), max_weight) :
               Serviced(service_xcmp_queue(Entry, max_weight, shuffled))
        /\ op' = "on_idle"
        /\ UNCHANGED <<lastSentAt, suspendedBy>>

HandleXcmpMessages == Ingest(Data, Budgets, MaxSentAt, MaxStream, MaxCalls)
OnIdle == Idle(Budgets, MaxCalls)

\* send_blob_message, send_xcm_message and send_xcm
Send(recipients, fragments, formats, maxCalls) ==
    \E recipient \in recipients, data \in fragments, channel_max \in ChannelMaxes,
       format \in formats :
        LET r == send_fragment([status |-> OutboundXcmpStatus,
                                messages |-> OutboundXcmpMessages, result |-> ""],
                               recipient, format, data, channel_max)
        IN /\ Call(maxCalls)
           /\ \A i \in 1..Len(r.status) : r.status[i].end <= MaxPages
           /\ OutboundXcmpStatus' = r.status
           /\ OutboundXcmpMessages' = r.messages
           /\ op' = "send_fragment"
           /\ svc' = NoSvc
           /\ take' = NoTake
           /\ UNCHANGED <<InboundXcmpStatus, InboundXcmpMessages, SignalMessages,
                          lastSentAt, lastSignal, streak, suspendedBy>>

\* the recipients with a record: get_channel_status answers for each
Recipients(statuses) == {statuses[i].para_id : i \in 1..Len(statuses)}

\* the recipients a take_outbound_messages call can return a page for, were
\* it to visit them all: not Suspended, the channel Ready, and the signal
\* page, or else the first data page, there and within max_size_now and
\* max_size_ever
Open(statuses, messages, signals, channel) ==
    {statuses[k].para_id : k \in
        {i \in DOMAIN statuses :
            LET r == statuses[i]
                c == channel[r.para_id]
                page == IF r.signalling THEN Get(signals, r.para_id)
                        ELSE Get(messages, <<r.para_id, r.begin>>)
            IN /\ r.outbound_status /= "Suspended"
               /\ c.status = "Ready"
               /\ r.signalling \/ r.begin < r.end
               /\ Len(page) < c.now
               /\ Len(page) <= c.ever}}

\* XcmpMessageSource::take_outbound_messages(maximum_channels)
Take(maximums, statuses, maxCalls) ==
    \E maximum_channels \in maximums,
       channel \in [Recipients(OutboundXcmpStatus) -> statuses] :
        LET r == take_outbound_messages([statuses |-> OutboundXcmpStatus,
                                         messages |-> OutboundXcmpMessages,
                                         signals |-> SignalMessages],
                                        maximum_channels, channel)
        IN /\ Call(maxCalls)
           /\ OutboundXcmpStatus' = r.statuses
           /\ OutboundXcmpMessages' = r.messages
           /\ SignalMessages' = r.signals
           /\ take' = [maximum_channels |-> maximum_channels, channel |-> channel,
                       open |-> Open(OutboundXcmpStatus, OutboundXcmpMessages,
                                     SignalMessages, channel),
                       result |-> r.result, panicked |-> r.panicked]
           /\ op' = "take_outbound_messages"
           /\ svc' = NoSvc
           /\ UNCHANGED <<InboundXcmpStatus, InboundXcmpMessages, lastSentAt,
                          lastSignal, streak, suspendedBy>>

SendFragment == Send(Peers, Fragments, Formats, MaxCalls)
TakeOutboundMessages == Take(MaximumChannels, ChannelStatuses, MaxCalls)

Next == HandleXcmpMessages \/ OnIdle \/ SendFragment \/ TakeOutboundMessages

Spec == Init /\ [][Next]_vars

\* the same over longer runs and longer streams
HandleXcmpMessagesLong == Ingest(Data, Budgets, MaxSentAtLong, MaxStreamLong, MaxCallsLong)
OnIdleLong == Idle(Budgets, MaxCallsLong)
SendFragmentLong == Send(Peers, Fragments, Formats, MaxCallsLong)
TakeOutboundMessagesLong == Take(MaximumChannels, ChannelStatuses, MaxCallsLong)
NextLong ==
    HandleXcmpMessagesLong \/ OnIdleLong \/ SendFragmentLong \/ TakeOutboundMessagesLong
SpecLong == Init /\ [][NextLong]_vars

\* the inbound queues alone, over more relay blocks
HandleXcmpMessagesQueue == Ingest(DataQueue, Budgets, MaxSentAtQueue, MaxStreamQueue, 0)
OnIdleQueue == Idle(Budgets, 0)
NextQueue == HandleXcmpMessagesQueue \/ OnIdleQueue
SpecQueue == Init /\ [][NextQueue]_vars

\* the same over more relay blocks still
HandleXcmpMessagesQueueLong ==
    Ingest(DataQueue, Budgets, MaxSentAtQueueLong, MaxStreamQueueLong, 0)
NextQueueLong == HandleXcmpMessagesQueueLong \/ OnIdleQueue
SpecQueueLong == Init /\ [][NextQueueLong]_vars

\* the dispatcher, over more kinds of aggregates and budgets
HandleXcmpMessagesService ==
    Ingest(DataService, BudgetsService, MaxSentAtService, MaxStreamService, 0)
OnIdleService == Idle(BudgetsService, 0)
NextService == HandleXcmpMessagesService \/ OnIdleService
SpecService == Init /\ [][NextService]_vars

\* data batches alone coming in, so that signals only go out, single
\* fragments sent, and channels whose max_size_now is within max_size_ever
HandleXcmpMessagesSignal ==
    Ingest(DataQueue, Budgets, MaxSentAtSignal, MaxStreamSignal, MaxCallsSignal)
OnIdleSignal == Idle(Budgets, MaxCallsSignal)
SendFragmentSignal == Send(Peers, {<<FragLight>>}, Formats, MaxCallsSignal)
TakeOutboundMessagesSignal ==
    Take(MaximumChannels, {c \in ChannelStatuses : c.now <= c.ever}, MaxCallsSignal)
NextSignal ==
    HandleXcmpMessagesSignal \/ OnIdleSignal \/ SendFragmentSignal
        \/ TakeOutboundMessagesSignal
SpecSignal == Init /\ [][NextSignal]_vars

\* the outbound queues alone: single fragments of either format toward three
\* recipients whose channels are Full or Ready, one page collected per call
SendFragmentRotate ==
    Send(PeersRotate, {<<FragLight>>},
         {ConcatenatedVersionedXcm, ConcatenatedEncodedBlob}, MaxCallsRotate)
TakeOutboundMessagesRotate ==
    Take({1}, {c \in ChannelStatuses : c.status = "Full"
                                        \/ (c.status = "Ready" /\ c.now <= c.ever)},
         MaxCallsRotate)
NextRotate == SendFragmentRotate \/ TakeOutboundMessagesRotate
SpecRotate == Init /\ [][NextRotate]_vars

\* the outbound queues under repeated polling: no peer suspends a channel and
\* no signal is sent, get_channel_max answers 3 (or 0, and the fragment is
\* refused), every fragment is of at most two bytes so that no page exceeds
\* three bytes, get_channel_status answers Ready(3, 3) for every recipient, and
\* take_outbound_messages is called again and again, by every block
FragmentsPoll == {<<FragLight>>, <<FragLight, FragLight>>}
SendFragmentPoll == Send(Peers, FragmentsPoll, Formats, MaxCallsPoll)
TakeOutboundMessagesPoll ==
    Take(MaximumChannels,
         {c \in ChannelStatuses : c.status = "Ready" /\ c.now = c.ever
                                                     /\ c.now \in ChannelMaxes},
         0)
NextPoll == SendFragmentPoll \/ TakeOutboundMessagesPoll
SpecPoll == Init /\ [][NextPoll]_vars /\ WF_vars(TakeOutboundMessagesPoll)

(***************************************************************************)
(* Properties.  svc is the record of the service_xcmp_queue run of the     *)
(* last call: max_weight as passed, queued (some record held a page on     *)
(* entry), calls (one entry per process_xcmp_message call, in order, with  *)
(* the page as read and as left, and the offers made to the executor),     *)
(* sent (the signals it enqueued), enqueued (the signals the whole call    *)
(* enqueued, those of handle_xcmp_messages first) and weight_used as       *)
(* returned.                                                               *)
(***************************************************************************)
Servicing == op \in {"on_idle", "handle_xcmp_messages"}

\* C1: a service run given max_weight >= threshold_weight over a queue that
\* holds a page hands at least one page to process_xcmp_message, and every
\* page any run hands over is handed over while max_weight - weight_used
\* is still at least threshold_weight.
C1_LoopRunsWhileAboveThreshold ==
    Servicing =>
        /\ (svc.max_weight >= threshold_weight /\ svc.queued => svc.calls /= <<>>)
        /\ \A k \in DOMAIN svc.calls :
               svc.max_weight - svc.calls[k].weight_used_before >= threshold_weight

\* C2: a service run given max_weight <= threshold_weight returns 0, offers
\* nothing to the executor and enqueues no signal, and on_idle with such a
\* max_weight leaves the storage as it was.
C2_NothingDoneAtOrBelowThreshold ==
    [][(Servicing' /\ svc'.max_weight <= threshold_weight) =>
           /\ svc'.weight_used = 0
           /\ svc'.calls = <<>>
           /\ svc'.sent = <<>>
           /\ (op' = "on_idle" => UNCHANGED storage)]_vars

\* C3: in every service run the weight cap given to process_xcmp_message is
\* at most max_weight less the weight the run had used by then, no fragment
\* is offered to the executor with more than that cap, and the weight the
\* run returns is at most max_weight.
C3_WeightCapWithinBudget ==
    Servicing =>
        /\ svc.weight_used <= svc.max_weight
        /\ \A k \in DOMAIN svc.calls :
               LET call == svc.calls[k]
               IN /\ call.weight_remaining <= svc.max_weight - call.weight_used_before
                  /\ \A j \in DOMAIN call.offers :
                         call.offers[j].weight <= call.weight_remaining

\* C3 witness: a run whose page was processed, and consumed weight, after
\* an earlier page of the run had consumed weight.
C3_SecondPageConsumesWeight ==
    /\ Servicing
    /\ \E k \in DOMAIN svc.calls :
           /\ svc.calls[k].weight_used_before > 0
           /\ svc.calls[k].weight_processed > 0

\* the (sender, sent_at) keys the records of InboundXcmpStatus list
ListedPages ==
    UNION {{<<InboundXcmpStatus[i].sender, InboundXcmpStatus[i].pages[j][1]>> :
               j \in DOMAIN InboundXcmpStatus[i].pages} : i \in DOMAIN InboundXcmpStatus}

\* the batches queued for a peer, summed over the records of a status list
RECURSIVE QueuedBatches(_, _)
QueuedBatches(status, peer) ==
    IF status = <<>> THEN 0
    ELSE (IF Head(status).sender = peer THEN Len(Head(status).pages) ELSE 0)
         + QueuedBatches(Tail(status), peer)

RecordsOf(peer) == {i \in DOMAIN InboundXcmpStatus : InboundXcmpStatus[i].sender = peer}

\* C4: whenever handle_xcmp_messages or on_idle has returned, the pages the
\* records list are exactly the stored InboundXcmpMessages: every listed
\* page is stored and no stored page is unlisted (a batch dropped at
\* hard_limit leaves nothing behind).
C4_NoOrphanInboundPages == ListedPages = DOMAIN InboundXcmpMessages

\* C5: whenever handle_xcmp_messages or on_idle has returned,
\* InboundXcmpStatus is sorted by sender and holds each sender at most once.
C5_StatusSortedOnePerSender ==
    \A i, j \in DOMAIN InboundXcmpStatus :
        i < j => InboundXcmpStatus[i].sender < InboundXcmpStatus[j].sender

\* C6: whenever handle_xcmp_messages or on_idle has returned, the batches
\* queued for any one peer, summed over InboundXcmpStatus, are at most
\* hard_limit.
C6_AtMostHardLimitQueued ==
    \A peer \in Peers : QueuedBatches(InboundXcmpStatus, peer) <= hard_limit

\* C7: whenever handle_xcmp_messages or on_idle has returned, a peer with
\* more than suspend_threshold batches queued is Suspended and the last
\* signal enqueued toward it is Suspend; a peer with resume_threshold or
\* fewer batches queued is Ok and, if a signal was ever enqueued toward it,
\* the last one is Resume.
C7_BackpressureHysteresis ==
    \A peer \in Peers :
        /\ QueuedBatches(InboundXcmpStatus, peer) > suspend_threshold =>
               /\ \A i \in RecordsOf(peer) : InboundXcmpStatus[i].status = "Suspended"
               /\ lastSignal[peer] = Suspend
        /\ QueuedBatches(InboundXcmpStatus, peer) <= resume_threshold =>
               /\ \A i \in RecordsOf(peer) : InboundXcmpStatus[i].status = "Ok"
               /\ lastSignal[peer] /= Suspend

\* the last signal of the signal page queued toward a peer is Suspend, and
\* the peer's outbound record says a signal is pending
SuspendPending(peer) ==
    /\ peer \in DOMAIN SignalMessages
    /\ SignalMessages[peer][Len(SignalMessages[peer])] = Suspend
    /\ \E k \in DOMAIN OutboundXcmpStatus :
           OutboundXcmpStatus[k].para_id = peer /\ OutboundXcmpStatus[k].signalling

\* C8 as stated: once the second batch of a peer was accepted since its
\* queue was empty, none of them dispatched, the peer is Suspended and a
\* Suspend toward it is pending.
C8_SuspendedAfterSecondBatch ==
    \A i \in DOMAIN InboundXcmpStatus :
        LET peer == InboundXcmpStatus[i].sender
        IN streak[peer] >= suspend_threshold =>
               InboundXcmpStatus[i].status = "Suspended" /\ SuspendPending(peer)

\* C8 amended: while none of the batches accepted from a peer since its
\* queue was empty has been dispatched, a record of it that holds
\* suspend_threshold batches or fewer is Ok, and a record that holds more
\* (a batch arrived while the record held suspend_threshold batches) is
\* Suspended with a Suspend toward the peer pending as the last signal.
C8_SuspendedOnBatchOverThreshold ==
    \A i \in DOMAIN InboundXcmpStatus :
        LET peer == InboundXcmpStatus[i].sender
            count == Len(InboundXcmpStatus[i].pages)
        IN streak[peer] >= 0 =>
               /\ count <= suspend_threshold => InboundXcmpStatus[i].status = "Ok"
               /\ count > suspend_threshold =>
                      /\ InboundXcmpStatus[i].status = "Suspended"
                      /\ lastSignal[peer] = Suspend
                      /\ SuspendPending(peer)

\* C8 witness: a peer's third batch in a row was accepted with none
\* dispatched, and it is Suspended with the Suspend pending.
C8_ThirdBatchSuspends ==
    \E i \in DOMAIN InboundXcmpStatus :
        /\ streak[InboundXcmpStatus[i].sender] = suspend_threshold + 1
        /\ Len(InboundXcmpStatus[i].pages) = suspend_threshold + 1
        /\ InboundXcmpStatus[i].status = "Suspended"
        /\ SuspendPending(InboundXcmpStatus[i].sender)

\* the outbound records of a recipient, and the data pages queued toward it
OutboundRecords(statuses, peer) ==
    {statuses[k] : k \in {i \in DOMAIN statuses : statuses[i].para_id = peer}}

OutboundPages(messages, peer) ==
    [key \in {k \in DOMAIN messages : k[1] = peer} |-> messages[key]]

Taking == op' = "take_outbound_messages"

C10_PendingSignalCollected ==
    [][(Taking /\ take'.maximum_channels >= 1) =>
           \A peer \in Peers :
               (/\ peer \in DOMAIN SignalMessages
                /\ \E r \in OutboundRecords(OutboundXcmpStatus, peer) : r.signalling
                /\ take'.channel[peer].status = "Ready"
                /\ Len(SignalMessages[peer]) < take'.channel[peer].now) =>
                   /\ \E k \in DOMAIN take'.result :
                          take'.result[k] = <<peer, SignalMessages[peer]>>
                   /\ peer \notin DOMAIN SignalMessages']_vars

\* the signals a log of <<peer, signal>> entries holds for one peer, in order
SignalsTo(log, peer) ==
    LET ToPeer(e) == e[1] = peer
        sel == SelectSeq(log, ToPeer)
    IN [k \in 1..Len(sel) |-> sel[k][2]]

\* C11: a take_outbound_messages call made while the record of a peer says
\* a signal is pending returns no page for that peer other than its signal
\* page, and takes none of the data pages queued toward it (a Closed
\* channel is purged); and the signal page of a peer holds, after the
\* format tag, the signals enqueued toward it in the order of the
\* send_signal calls: every handle_xcmp_messages or on_idle call appends the
\* signals it enqueues, in order, to the page as it was.
C11_SignalBeforeData ==
    [][/\ Taking =>
              \A peer \in Peers :
                  (\E r \in OutboundRecords(OutboundXcmpStatus, peer) : r.signalling) =>
                      /\ \A k \in DOMAIN take'.result :
                             take'.result[k][1] = peer =>
                                 take'.result[k][2] = Get(SignalMessages, peer)
                      /\ take'.channel[peer].status /= "Closed" =>
                             OutboundPages(OutboundXcmpMessages', peer)
                                 = OutboundPages(OutboundXcmpMessages, peer)
       /\ Servicing' =>
              \A peer \in Peers :
                  LET sigs == SignalsTo(svc'.enqueued, peer)
                      page == Get(SignalMessages, peer)
                  IN Get(SignalMessages', peer)
                         = IF sigs = <<>> THEN page
                           ELSE (IF page = <<>> THEN <<Signals>> ELSE page) \o sigs]_vars

\* C11 witness: take_outbound_messages returned the signal page of a peer,
\* a Suspend in it, and left the data pages queued toward that peer.
C11_SignalTakenDataLeft ==
    /\ op = "take_outbound_messages"
    /\ \E k \in DOMAIN take.result :
           /\ Head(take.result[k][2]) = Signals
           /\ Suspend \in {take.result[k][2][i] : i \in 2..Len(take.result[k][2])}
           /\ \E r \in OutboundRecords(OutboundXcmpStatus, take.result[k][1]) :
                  ~r.signalling /\ r.begin < r.end

\* C12: no take_outbound_messages call panics: the records pruned are at
\* most the entries of the result, and result.len() - pruned is at most the
\* length of the list that is left.
C12_TakeNeverPanics == op = "take_outbound_messages" => ~take.panicked

\* C13: a take_outbound_messages call that visits a record of a peer that
\* is not Suspended and whose channel is Closed (the k-th record is visited
\* when k <= maximum_channels) returns normally, returns no page for the
\* peer, leaves no data page and no signal page queued toward it, and leaves
\* its record, if any, as (Ok, false, 0, 0).
C13_ClosedChannelPurged ==
    [][Taking =>
           \A k \in DOMAIN OutboundXcmpStatus :
               LET r == OutboundXcmpStatus[k]
                   peer == r.para_id
               IN (/\ k <= take'.maximum_channels
                   /\ r.outbound_status /= "Suspended"
                   /\ take'.channel[peer].status = "Closed") =>
                      /\ ~take'.panicked
                      /\ \A j \in DOMAIN take'.result : take'.result[j][1] /= peer
                      /\ DOMAIN OutboundPages(OutboundXcmpMessages', peer) = {}
                      /\ peer \notin DOMAIN SignalMessages'
                      /\ \A q \in OutboundRecords(OutboundXcmpStatus', peer) :
                             q = [para_id |-> peer, outbound_status |-> "Ok",
                                  signalling |-> FALSE, begin |-> 0, end |-> 0]]_vars

\* the recipients a call returned a page for
Emitted(result) == {result[k][1] : k \in DOMAIN result}

\* C14: with M recipients open when a take_outbound_messages call is made
\* (take.open), every one of them is returned a page within
\* ceil(M / maximum_channels) consecutive calls made with that
\* maximum_channels, as long as it stays open: in the call itself when
\* M <= maximum_channels, and in that call or the next when
\* M <= 2 * maximum_channels and no further recipient is open in the next.
C14_NoStarvation ==
    [][(Taking /\ ~take'.panicked) =>
           /\ LET open == Open(OutboundXcmpStatus, OutboundXcmpMessages,
                               SignalMessages, take'.channel)
              IN Cardinality(open) <= take'.maximum_channels =>
                     open \subseteq Emitted(take'.result)
           /\ (/\ op = "take_outbound_messages"
               /\ ~take.panicked
               /\ take.maximum_channels = take'.maximum_channels
               /\ Cardinality(take.open) <= 2 * take.maximum_channels
               /\ Open(OutboundXcmpStatus, OutboundXcmpMessages,
                       SignalMessages, take'.channel) \subseteq take.open) =>
                  \A p \in take.open :
                      \/ p \in Emitted(take.result)
                      \/ p \in Emitted(take'.result)
                      \/ p \notin Open(OutboundXcmpStatus, OutboundXcmpMessages,
                                       SignalMessages, take'.channel)]_vars

\* C15: every page a send_fragment call writes (a new page, or a page it
\* appended to) is, format tag included, no longer than the
\* max_message_size get_channel_max reported in the call.
C15_PageWithinMaxSize ==
    [][op' = "send_fragment" =>
           \A key \in DOMAIN OutboundXcmpMessages' :
               Get(OutboundXcmpMessages, key) /= OutboundXcmpMessages'[key] =>
                   \E max_message_size \in ChannelMaxes :
                       Len(OutboundXcmpMessages'[key]) <= max_message_size]_vars

\* C16: a handle_xcmp_messages call that processes a Resume from a peer
\* that had sent Suspend keeps the outbound record of the peer if it holds
\* a data page or says a signal is pending: after the call the record is
\* there, Ok, with the data pages and the pending signal it had.
C16_ResumeKeepsPendingRecord ==
    [][op' = "handle_xcmp_messages" =>
           \A peer \in Peers :
               (suspendedBy[peer] /\ ~suspendedBy'[peer]) =>
                   \A r \in OutboundRecords(OutboundXcmpStatus, peer) :
                       (r.signalling \/ r.begin < r.end) =>
                           \E q \in OutboundRecords(OutboundXcmpStatus', peer) :
                               /\ q.outbound_status = "Ok"
                               /\ r.signalling => q.signalling
                               /\ q.begin = r.begin /\ q.end = r.end]_vars

\* the process_xcmp_message calls of the last run in which the executor
\* completed a fragment
Dispatching == {k \in DOMAIN svc.calls : svc.calls[k].weight_processed > 0}

\* C17: the fragments of a peer are dispatched in the order their batches
\* were delivered: within a service run no fragment of a page is dispatched
\* after a fragment of a later page of the same peer, and when the run
\* returns no page of the peer that is still queued was delivered before a
\* page the run dispatched a fragment of.
C17_FifoWithinChannel ==
    Servicing =>
        /\ \A j, k \in Dispatching :
               (j < k /\ svc.calls[j].sender = svc.calls[k].sender) =>
                   svc.calls[j].sent_at <= svc.calls[k].sent_at
        /\ \A k \in Dispatching :
               \A i \in RecordsOf(svc.calls[k].sender) :
                   \A n \in DOMAIN InboundXcmpStatus[i].pages :
                       InboundXcmpStatus[i].pages[n][1] >= svc.calls[k].sent_at

\* the process_xcmp_message calls of a run on one page
CallsOn(calls, key) ==
    {k \in DOMAIN calls : <<calls[k].sender, calls[k].sent_at>> = key}

\* A stored page changes only through the process_xcmp_message calls on it:
\* each call reads what the call before it left, the first what was stored,
\* and the page is afterwards what the last call left.
PagesKept ==
    \A key \in DOMAIN InboundXcmpMessages \cup DOMAIN InboundXcmpMessages' :
        LET on == CallsOn(svc'.calls, key)
            before(k) == {j \in on : j < k}
            last(S) == CHOOSE m \in S : \A x \in S : x <= m
        IN /\ \A k \in on :
                  IF before(k) /= {}
                  THEN svc'.calls[k].data = svc'.calls[last(before(k))].remaining
                  ELSE key \in DOMAIN InboundXcmpMessages =>
                           svc'.calls[k].data = InboundXcmpMessages[key]
           /\ on /= {} => Get(InboundXcmpMessages', key) = svc'.calls[last(on)].remaining
           /\ (on = {} /\ key \in DOMAIN InboundXcmpMessages) =>
                  Get(InboundXcmpMessages', key) = InboundXcmpMessages[key]

\* the fragments a call took off its page, and those of them the executor
\* is to see: in a page of VersionedXcm the ones before the first that does
\* not decode, less those of a version Xcm::try_from rejects; in a page of
\* blobs none
Consumed(call) == SubSeq(call.data, 1, Len(call.data) - Len(call.remaining))

RECURSIVE UpToGarbage(_)
UpToGarbage(fragments) ==
    IF fragments = <<>> \/ Head(fragments) = FragGarbage THEN <<>>
    ELSE <<Head(fragments)>> \o UpToGarbage(Tail(fragments))

Processable(call) ==
    LET Versioned(xcm) == xcm /= FragBadVersion
    IN IF call.format = ConcatenatedVersionedXcm
       THEN SelectSeq(UpToGarbage(Consumed(call)), Versioned)
       ELSE <<>>

IsSuffix(call) ==
    /\ Len(call.remaining) <= Len(call.data)
    /\ call.remaining = SubSeq(call.data, Len(call.data) - Len(call.remaining) + 1,
                               Len(call.data))

\* the fragments a call passed to the executor, and those the executor took on
Passed(call) == [k \in DOMAIN call.offers |-> call.offers[k].fragment]

Accepted(call) ==
    LET Ok(offer) == offer.ok
        sel == SelectSeq(call.offers, Ok)
    IN [k \in DOMAIN sel |-> sel[k].fragment]

\* C18 as stated: over the calls made on a page, the fragments passed to
\* the executor are the processable fragments of the page, each once, in
\* order: every call passes exactly the processable fragments it takes off
\* the page, and leaves the rest of the page.
C18_EachFragmentPassedOnce ==
    [][Servicing' =>
           /\ PagesKept
           /\ \A k \in DOMAIN svc'.calls :
                  LET call == svc'.calls[k]
                  IN IsSuffix(call) /\ Passed(call) = Processable(call)]_vars

\* C18 amended: the same of the fragments the executor took on; a fragment
\* the executor refused for its weight is the last one the call passed, and
\* stays at the front of the page to be passed again.
C18_EachFragmentAcceptedOnce ==
    [][Servicing' =>
           /\ PagesKept
           /\ \A k \in DOMAIN svc'.calls :
                  LET call == svc'.calls[k]
                  IN /\ IsSuffix(call)
                     /\ Accepted(call) = Processable(call)
                     /\ \A n \in DOMAIN call.offers :
                            ~call.offers[n].ok =>
                                /\ n = Len(call.offers)
                                /\ call.remaining /= <<>>
                                /\ Head(call.remaining) = call.offers[n].fragment]_vars

\* C18 witness: a page that a refusal had cut down to its heavy second
\* fragment was handed over again, and the executor took the fragment on.
C18_RefusedFragmentAcceptedLater ==
    /\ Servicing
    /\ \E k \in DOMAIN svc.calls :
           /\ svc.calls[k].data = <<FragHeavy>>
           /\ Accepted(svc.calls[k]) = <<FragHeavy>>
           /\ svc.calls[k].remaining = <<>>

\* the weight the processable fragments of a queued page, of the pages of a
\* record and of all the records require
RECURSIVE SumWeights(_)
SumWeights(fragments) ==
    IF fragments = <<>> THEN 0
    ELSE Weigh(Head(fragments)) + SumWeights(Tail(fragments))

PageWeight(sender, page) ==
    SumWeights(Processable([format |-> page[2],
                            data |-> Get(InboundXcmpMessages, <<sender, page[1]>>),
                            remaining |-> <<>>]))

RECURSIVE PagesWeight(_, _)
PagesWeight(sender, pages) ==
    IF pages = <<>> THEN 0
    ELSE PageWeight(sender, Head(pages)) + PagesWeight(sender, Tail(pages))

RECURSIVE RequiredWeight(_)
RequiredWeight(status) ==
    IF status = <<>> THEN 0
    ELSE PagesWeight(Head(status).sender, Head(status).pages)
         + RequiredWeight(Tail(status))

\* a peer holds a queued page with a fragment to dispatch at its front
HoldsFragment(peer) ==
    \E i \in RecordsOf(peer) :
        /\ InboundXcmpStatus[i].pages /= <<>>
        /\ PageWeight(peer, InboundXcmpStatus[i].pages[1]) > 0

\* C19: when on_idle is called while two peers each hold a queued page with
\* a fragment to dispatch, and max_weight is at least the weight all the
\* queued fragments require, the run has the executor take on a fragment
\* of each of the two peers, whatever the shuffle.
C19_BothPeersDispatched ==
    [][op' = "on_idle" =>
           \A p, q \in Peers :
               (/\ p /= q
                /\ HoldsFragment(p)
                /\ HoldsFragment(q)
                /\ RequiredWeight(InboundXcmpStatus) <= svc'.max_weight) =>
                   \A peer \in {p, q} :
                       \E k \in DOMAIN svc'.calls :
                           /\ svc'.calls[k].sender = peer
                           /\ Accepted(svc'.calls[k]) /= <<>>]_vars

\* the fragments a call had the executor refuse for their weight
Refused(call) == {n \in DOMAIN call.offers : ~call.offers[n].ok}

\* C20: a process_xcmp_message call in which the executor refuses a fragment
\* for its weight stops there: the refused fragment is the last it passes,
\* the page it leaves is the page it read from the start of that fragment
\* on, the call reports the page not empty and the next call on the page in
\* the run reads what was left; when the run returns, the page last refused
\* is stored as it was left and its (sent_at, format) entry is the first of
\* the sender's record.  A page of two fragments of weight 1000 handed over
\* with 1500 has the first taken on and the second refused, and is left
\* holding the second alone.
C20_RewindKeepsRefusedFragment ==
    Servicing =>
        \A k \in DOMAIN svc.calls :
            LET call == svc.calls[k]
                key == <<call.sender, call.sent_at>>
                later == {j \in CallsOn(svc.calls, key) : j > k}
            IN /\ Refused(call) /= {} =>
                      /\ Refused(call) = {Len(call.offers)}
                      /\ IsSuffix(call)
                      /\ call.remaining /= <<>>
                      /\ Head(call.remaining) = call.offers[Len(call.offers)].fragment
                      /\ Accepted(call) = Processable(call)
                      /\ ~call.is_empty
                      /\ \A j \in later :
                             (\A i \in later : j <= i) => svc.calls[j].data = call.remaining
                      /\ later = {} =>
                             /\ Get(InboundXcmpMessages, key) = call.remaining
                             /\ \E i \in RecordsOf(call.sender) :
                                    /\ InboundXcmpStatus[i].pages /= <<>>
                                    /\ InboundXcmpStatus[i].pages[1] = <<call.sent_at, call.format>>
               /\ (/\ call.format = ConcatenatedVersionedXcm
                   /\ call.data = <<FragLight, FragLight>>
                   /\ call.weight_remaining = 1500) =>
                      /\ call.offers = <<[fragment |-> FragLight, weight |-> 1500, ok |-> TRUE],
                                         [fragment |-> FragLight, weight |-> 500, ok |-> FALSE]>>
                      /\ call.remaining = <<FragLight>>
                      /\ call.weight_processed = 1000

\* C20 witness: a run handed a page of two fragments of weight 1000 over
\* with 1500, and the page is stored holding one of them.
C20_SecondFragmentLeft ==
    /\ Servicing
    /\ \E k \in DOMAIN svc.calls :
           /\ svc.calls[k].data = <<FragLight, FragLight>>
           /\ svc.calls[k].weight_remaining = 1500
           /\ Refused(svc.calls[k]) /= {}
           /\ Get(InboundXcmpMessages, <<svc.calls[k].sender, svc.calls[k].sent_at>>)
                  = <<FragLight>>

\* ---------------------------------------------------------------------------
\* C21: every call of service_xcmp_queue terminates, the paths that re-run the
\* last shuffle entry and that re-append an index included: the loop is never
\* cut off, a turn that asks for a re-run or a re-append once weight_available
\* equals max_weight consumed weight, and the loop takes at most as many turns
\* as there were fragments queued plus senders listed when the call began.
ReRuns == {k \in DOMAIN svc.turns : svc.turns[k].again /\ svc.turns[k].last}
ReAppends == {k \in DOMAIN svc.turns : svc.turns[k].again /\ ~svc.turns[k].last}

C21_ServiceLoopTerminates ==
    Servicing =>
        /\ ~svc.cut
        /\ Len(svc.turns) <= svc.fragments + svc.peers
        /\ \A k \in ReRuns \cup ReAppends :
               svc.turns[k].weight_available = svc.max_weight
                   => svc.turns[k].weight_processed > 0

\* A call whose loop re-appended an index to the shuffle and so took more turns
\* than there were senders, the re-appended index being visited again.
C21_IndexReAppended ==
    /\ Servicing
    /\ ~svc.cut
    /\ Len(svc.turns) > svc.peers
    /\ \E k \in ReAppends :
           /\ svc.turns[k].weight_available = svc.max_weight
           /\ \E j \in DOMAIN svc.turns : j > k /\ svc.turns[j].index = svc.turns[k].index

\* ---------------------------------------------------------------------------
\* C22: after every operation a signal page is stored for a peer if and only
\* if OutboundXcmpStatus holds a record of that peer that says a signal is
\* pending; no signal page is stored without such a record.
C22_SignalPageIffRecordSignalling ==
    \A peer \in Peers :
        Get(SignalMessages, peer) /= <<>>
            <=> \E r \in OutboundRecords(OutboundXcmpStatus, peer) : r.signalling

\* ---------------------------------------------------------------------------
\* C23: under repeated polling with maximum_channels >= 1, a recipient that is
\* never suspended, has no signal pending and whose channel is reported
\* Ready with max_size_now = max_size_ever = the max_message_size the
\* fragments were accepted under, has every queued page returned in the end:
\* whenever its ring holds a page, a later take_outbound_messages call
\* returns a page for it, so no page stays at the head of the ring forever.
C23_AcceptedFragmentEmitted ==
    \A peer \in Peers :
        (\E r \in OutboundRecords(OutboundXcmpStatus, peer) : r.begin < r.end)
            ~> (/\ op = "take_outbound_messages"
                /\ \E k \in DOMAIN take.result : take.result[k][1] = peer)
====
